---- MODULE Spec2Model ----
(***************************************************************************)
(* openrgb-fade: the device orchestrator (main.rs), the per-controller     *)
(* worker (input reader thread + frame driver thread), and the fade engine *)
(* (fade.rs), with the key-event decoding of hid.rs and the mapping lookup *)
(* of key_mappings.rs.                                                     *)
(*                                                                         *)
(* The specifications share the variables:                                 *)
(*   Spec      the whole process in run mode: orchestrator poll loop and   *)
(*             the workers of two controllers (LiveSpec adds fairness);    *)
(*   FadeSpec  one FadeLeds object, FadeLeds::update applied to every      *)
(*             bounded slice of events, over the full brightness range;    *)
(*   AdvSpec   FadeState::update applied repeatedly to On(MAX);            *)
(*   PressSpec one key press, then ticks without a press of that key;      *)
(*   DrainSpec one run-loop iteration: the drain, then FadeLeds::update;   *)
(*   IdleSpec  a running worker whose input reader never returns;          *)
(*   ConnSpec  wait_for_server;                                            *)
(*   CalSpec   setup_device;                                               *)
(*   MapSpec   the keymap file written, edited and parsed.                 *)
(***************************************************************************)
EXTENDS Integers, Sequences, FiniteSets, TLC

VARIABLES
    proc,       \* "run", or the unwrap() that panicked the main task
    opc,        \* orchestrator position in its loop: "poll", "enum", "setup"
    pending,    \* `controllers`: enumerated, not yet active, not yet set up this poll
    registry,   \* active_devices: registry[d] <=> d is a key of the map
    healthy,    \* environment, fixed per behaviour: TRUE = d is always enumerated, its
                \* keymap file parses and its hidraw node opens; FALSE = no assumption
    fpc,        \* frame driver thread of d's latest worker: position / how it ended
    rpc,        \* input reader thread of d's latest worker: position / how it ended
    stale,      \* TRUE: an input reader thread of an earlier worker of d is still alive
    evq,        \* hid event channel of d's latest worker (tx -> hid_event_reader)
    sigbuf,     \* messages buffered in d's thread_exited channel
    sigSent,    \* number of tx.send(()) the latest frame driver of d has done
    state,      \* FadeLeds.state of d's frame driver (<<>> when there is none)
    staged,     \* colours of the last batched command staged for d
    triggered,  \* LEDs of d that the latest FadeLeds::update set to On(MAX)
    fs,         \* AdvSpec: one FadeState
    n,          \* AdvSpec: number of FadeState::update calls applied to fs
    wpc,        \* wait_for_server: "connect", "sleep", or "done" (client returned)
    attempt,    \* wait_for_server: the loop variable i
    waited,     \* wait_for_server: ms of the Timer::after being awaited
    serverUp,   \* environment: the OpenRGB server accepts connections
    cpc,        \* setup_device: "none", "light", "wait", "done", or how it ended
    seen,       \* setup_device: the HashSet `seen`
    keys,       \* setup_device: the Vec `keys`; MapSpec: the KeyMapping in memory
    file,       \* contents of the keymap file, a sequence of characters
    parsed,     \* what parse_from_file returned for `file`
    drained     \* DrainSpec: the Vec `events` of d's run loop (main.rs 200)

vars == <<proc, opc, pending, registry, healthy, fpc, rpc, stale, evq,
          sigbuf, sigSent, state, staged, triggered, fs, n,
          wpc, attempt, waited, serverUp, cpc, seen, keys, file, parsed, drained>>

orchVars   == <<proc, opc, pending, registry>>
workerVars == <<fpc, rpc, stale, evq, sigbuf, sigSent, state, staged, triggered>>
advVars    == <<fs, n>>
supVars    == <<wpc, attempt, waited, serverUp>>
calVars    == <<cpc, seen, keys>>
mapVars    == <<file, parsed>>
otherVars  == <<supVars, calVars, mapVars, drained>>

----------------------------------------------------------------------------
(* Bounds of the model *)

MaxFade == 1
MaxQueue == 1
MaxEvents == 1
MaxAdvances == 299
MaxDrain == 3
MaxAttempts == 45
MaxMapLen == 3

(* Program constant: Brightness::MAX *)
MAX == 255

----------------------------------------------------------------------------
(* Controllers, their LED counts and their keymap files *)

Dev == {"d1", "d2"}

\* controller.num_leds()
NumLeds(d) == IF d = "d1" THEN 2 ELSE 1

\* The KeyMapping parsed from d's keymap file. d2's file has more lines than
\* d2 has LEDs.
KeyMapOf(d) == <<100, 200>>

\* config.color()
ConfigColor == <<255, 100, 255>>

Black == <<0, 0, 0>>

\* Raw input reports (byte sequences, 1-indexed here, 0-indexed in the code)
ReportDown100  == <<0, 0, 100, 0, 1>>
ReportDown200  == <<0, 0, 200, 0, 1>>
ReportUp100    == <<0, 0, 100, 0, 0>>
ReportDown7    == <<0, 0, 7, 0, 1>>
ReportShort    == <<0, 0, 100, 0>>

\* What the input reader threads of Spec read
Reports == {ReportDown100, ReportDown200}

\* What FadeSpec passes to FadeLeds::update
FadeReports == {ReportDown100, ReportDown200, ReportUp100, ReportDown7, ReportShort}

EventSeqs == UNION {[1..k -> FadeReports] : k \in 0..MaxEvents}

----------------------------------------------------------------------------
(* hid.rs: KeyEvent *)

IsDown(e) == Len(e) >= 5 /\ e[5] > 0

\* u16::from_ne_bytes([self.0[2], self.0[3]]), little-endian host
KeyBytes(e) == e[3] + 256 * e[4]

(* key_mappings.rs: KeyMapping::get_led; 0 stands for None, i for Some(i-1) *)
\* A lookup that answers the first LED for an absent key
GetLedOrFirst(km, key) ==
    IF \E i \in 1..Len(km) : km[i] = key
    THEN CHOOSE i \in 1..Len(km) : km[i] = key /\ \A j \in 1..(i-1) : km[j] # key
    ELSE 1

GetLed(km, key) ==
    IF \E i \in 1..Len(km) : km[i] = key
    THEN CHOOSE i \in 1..Len(km) : km[i] = key /\ \A j \in 1..(i-1) : km[j] # key
    ELSE 0

----------------------------------------------------------------------------
(* fade.rs: FadeState, Brightness *)

Off == [tag |-> "Off", b |-> 0]
On(b) == [tag |-> "On", b |-> b]

\* Brightness::tick: None (some = FALSE) at 0, else decrement
BrightnessTickEarly(b) ==
    IF b <= 1 THEN [some |-> FALSE, b |-> b] ELSE [some |-> TRUE, b |-> b - 1]

BrightnessTick(b) ==
    IF b = 0 THEN [some |-> FALSE, b |-> b] ELSE [some |-> TRUE, b |-> b - 1]

\* FadeState::update
FadeStateUpdateByTwo(s) ==
    IF s.tag = "On"
    THEN IF s.b <= 1 THEN Off ELSE On(s.b - 2)
    ELSE s

FadeStateUpdate(s) ==
    IF s.tag = "On"
    THEN LET t == BrightnessTick(s.b)
         IN  IF t.some THEN On(t.b) ELSE Off
    ELSE s

\* FadeState::get_brightness
GetBrightness(s) == IF s.tag = "On" THEN s.b ELSE 0

\* FadeLeds::new
NewFadeLeds(d) == [i \in 1..NumLeds(d) |-> Off]

\* The divisor of `color / (255 - brightness)` (u8 arithmetic)
DivisorOffByOne(b) == (256 - b) % 256

Divisor(b) == (255 - b) % 256

\* The colour staged for a LED whose brightness, read after its advance, is b.
\* Only evaluated where Divisor(b) # 0.
NewColor(b) ==
    IF b = 0 THEN Black
    ELSE <<ConfigColor[1] \div Divisor(b),
           ConfigColor[2] \div Divisor(b),
           ConfigColor[3] \div Divisor(b)>>

\* First loop of FadeLeds::update: every down event whose key maps to a LED
\* sets that LED to On(MAX). ok = FALSE: self.state[led] was out of range.
\* hit: the LEDs assigned so far.
RECURSIVE ApplyEventsFrom(_, _, _, _)
ApplyEventsFrom(st, hit, events, km) ==
    IF events = <<>> THEN [ok |-> TRUE, st |-> st, hit |-> hit]
    ELSE LET e   == Head(events)
             led == IF IsDown(e) THEN GetLed(km, KeyBytes(e)) ELSE 0
         IN  IF led = 0 THEN ApplyEventsFrom(st, hit, Tail(events), km)
             ELSE IF led > Len(st) THEN [ok |-> FALSE, st |-> st, hit |-> hit]
             ELSE ApplyEventsFrom([st EXCEPT ![led] = On(MAX)], hit \cup {led},
                                  Tail(events), km)

\* Only the first drained event is applied
ApplyEventsOnce(st, events, km) ==
    ApplyEventsFrom(st, {}, IF events = <<>> THEN <<>> ELSE <<Head(events)>>, km)

ApplyEvents(st, events, km) == ApplyEventsFrom(st, {}, events, km)

\* The brightness read for colour computation, given the triggered and the
\* advanced array: the code reads it after state.update().
BrightnessReadStale(trig, adv, i) == GetBrightness(trig[i])

BrightnessRead(trig, adv, i) == GetBrightness(adv[i])

\* FadeLeds::update up to (not including) cmd.execute():
\*   kind "ok"      state advanced, colors staged
\*   kind "index"   panic: index out of bounds in self.state[led]
\*   kind "divzero" panic: division by zero in color / (255 - brightness)
UpdateResult(st, events, km, leds) ==
    LET a == ApplyEvents(st, events, km)
    IN  IF ~a.ok THEN [kind |-> "index", state |-> <<>>, colors |-> <<>>, hit |-> {}]
        ELSE LET adv == [i \in 1..leds |-> FadeStateUpdate(a.st[i])]
                 br  == [i \in 1..leds |-> BrightnessRead(a.st, adv, i)]
             IN  IF \E i \in 1..leds : br[i] # 0 /\ Divisor(br[i]) = 0
                 THEN [kind |-> "divzero", state |-> <<>>, colors |-> <<>>, hit |-> {}]
                 ELSE [kind |-> "ok", state |-> adv, hit |-> a.hit,
                       colors |-> [i \in 1..leds |-> NewColor(br[i])]]

----------------------------------------------------------------------------
(* Channels *)

FrameAlive(d) == fpc[d] \in {"init", "run"}

\* thread_exited.try_recv() as the orchestrator sees it
TryRecvNoDisconnect(d) ==
    IF sigbuf[d] > 0 THEN "Ok" ELSE "Empty"

TryRecv(d) ==
    IF sigbuf[d] > 0 THEN "Ok"
    ELSE IF ~FrameAlive(d) THEN "Disconnected"
    ELSE "Empty"

----------------------------------------------------------------------------
(* Initial state: run mode, server connected, config loaded, no worker *)

\* wait_for_server has returned the client
SupDone == wpc = "done" /\ attempt = 0 /\ waited = 0 /\ serverUp = TRUE

\* Command::Run: setup_device is not called, no keymap file is written
CalNone == cpc = "none" /\ seen = {} /\ keys = <<>>

MapNone == file = <<>> /\ parsed = [some |-> FALSE, km |-> <<>>]

NoDrain == drained = [d \in Dev |-> <<>>]

Init ==
    /\ proc = "run"
    /\ opc = "poll"
    /\ pending = {}
    /\ registry = [d \in Dev |-> FALSE]
    /\ healthy \in [Dev -> BOOLEAN]
    /\ fpc = [d \in Dev |-> "none"]
    /\ rpc = [d \in Dev |-> "none"]
    /\ stale = [d \in Dev |-> FALSE]
    /\ evq = [d \in Dev |-> <<>>]
    /\ sigbuf = [d \in Dev |-> 0]
    /\ sigSent = [d \in Dev |-> 0]
    /\ state = [d \in Dev |-> <<>>]
    /\ staged = [d \in Dev |-> <<>>]
    /\ triggered = [d \in Dev |-> {}]
    /\ fs = Off
    /\ n = 0
    /\ SupDone /\ CalNone /\ MapNone /\ NoDrain

(* Orchestrator: main.rs 225-260 *)

\* Lines 226-240: collect the entries whose channel signalled, remove them.
Evict ==
    /\ proc = "run" /\ opc = "poll"
    /\ registry' = [d \in Dev |-> registry[d] /\ TryRecv(d) = "Empty"]
    /\ sigbuf' = [d \in Dev |-> IF registry[d] /\ TryRecv(d) # "Empty" THEN 0 ELSE sigbuf[d]]
    /\ opc' = "enum"
    /\ UNCHANGED <<proc, pending, healthy, fpc, rpc, stale, evq, sigSent,
                   state, staged, triggered, advVars, otherVars>>

\* Lines 242-248: the server answers with the keyboards S; those already
\* active are filtered out.
EnumOk(S) ==
    /\ proc = "run" /\ opc = "enum"
    /\ \A d \in Dev : healthy[d] => d \in S
    /\ pending' = {d \in S : ~registry[d]}
    /\ opc' = IF pending' = {} THEN "poll" ELSE "setup"
    /\ UNCHANGED <<proc, registry, healthy, workerVars, advVars, otherVars>>

\* An unwrap() on the main task panics: the process ends, and with it the
\* registry and every thread.
Panic(how) ==
    /\ proc' = how
    /\ opc' = "poll"
    /\ pending' = {}
    /\ registry' = [d \in Dev |-> FALSE]
    /\ fpc' = [d \in Dev |-> "none"]
    /\ rpc' = [d \in Dev |-> "none"]
    /\ stale' = [d \in Dev |-> FALSE]
    /\ evq' = [d \in Dev |-> <<>>]
    /\ sigbuf' = [d \in Dev |-> 0]
    /\ sigSent' = [d \in Dev |-> 0]
    /\ state' = [d \in Dev |-> <<>>]
    /\ staged' = [d \in Dev |-> <<>>]
    /\ triggered' = [d \in Dev |-> {}]
    /\ UNCHANGED <<healthy, advVars, otherVars>>

\* Line 245: get_controllers_of_type(..).await.unwrap() on an Err
EnumFail ==
    /\ proc = "run" /\ opc = "enum"
    /\ Panic("enumPanic")

\* Line 253: sync_controller_data().await.unwrap() on an Err
SetupSyncFail(d) ==
    /\ proc = "run" /\ opc = "setup" /\ d \in pending
    /\ Panic("syncPanic")

AfterSetup(d) ==
    /\ pending' = pending \ {d}
    /\ opc' = IF pending' = {} THEN "poll" ELSE "setup"

\* Lines 159-160 (and the CString conversion in hid.rs 19): try_setup_thread
\* returns None: keymap file missing, or unparsable.
SetupSkip(d) ==
    /\ proc = "run" /\ opc = "setup" /\ d \in pending
    /\ ~healthy[d]
    /\ AfterSetup(d)
    /\ UNCHANGED <<proc, registry, healthy, workerVars, advVars, otherVars>>

\* hid.rs 17-20: open_path(..).unwrap() on an Err panics the main task.
SetupOpenFail(d) ==
    /\ proc = "run" /\ opc = "setup" /\ d \in pending
    /\ ~healthy[d]
    /\ Panic("openPanic")

\* Lines 162-220 and 254-256: both threads spawned, entry inserted.
SetupSpawn(d) ==
    /\ proc = "run" /\ opc = "setup" /\ d \in pending
    /\ AfterSetup(d)
    /\ registry' = [registry EXCEPT ![d] = TRUE]
    /\ stale' = [stale EXCEPT ![d] = stale[d] \/ rpc[d] = "run"]
    /\ rpc' = [rpc EXCEPT ![d] = "run"]
    /\ fpc' = [fpc EXCEPT ![d] = "init"]
    /\ evq' = [evq EXCEPT ![d] = <<>>]
    /\ sigbuf' = [sigbuf EXCEPT ![d] = 0]
    /\ sigSent' = [sigSent EXCEPT ![d] = 0]
    /\ state' = [state EXCEPT ![d] = <<>>]
    /\ staged' = [staged EXCEPT ![d] = <<>>]
    /\ triggered' = [triggered EXCEPT ![d] = {}]
    /\ UNCHANGED <<proc, healthy, advVars, otherVars>>

----------------------------------------------------------------------------
(* Input reader thread: main.rs 166-172 *)

\* read_blocking() returns a report; tx.send(event) succeeds while the frame
\* driver holds the receiver, else the thread returns.
ReadOk(d, r) ==
    /\ proc = "run" /\ rpc[d] = "run"
    /\ IF FrameAlive(d)
       THEN /\ Len(evq[d]) < MaxQueue
            /\ evq' = [evq EXCEPT ![d] = Append(evq[d], r)]
            /\ rpc' = rpc
       ELSE /\ rpc' = [rpc EXCEPT ![d] = "sendfail"]
            /\ evq' = evq
    /\ UNCHANGED <<orchVars, healthy, fpc, stale, sigbuf, sigSent, state,
                   staged, triggered, advVars, otherVars>>

\* A read error that takes the whole process down
ReadFailFatal(d) ==
    /\ proc = "run" /\ rpc[d] = "run"
    /\ rpc' = [rpc EXCEPT ![d] = "readerr"]
    /\ proc' = "readPanic"
    /\ UNCHANGED <<opc, pending, registry, healthy, fpc, stale, evq, sigbuf,
                   sigSent, state, staged, triggered, advVars, otherVars>>

\* read_blocking() returns Err: the while-let ends, tx is dropped.
ReadFail(d) ==
    /\ proc = "run" /\ rpc[d] = "run"
    /\ rpc' = [rpc EXCEPT ![d] = "readerr"]
    /\ UNCHANGED <<orchVars, healthy, fpc, stale, evq, sigbuf, sigSent, state,
                   staged, triggered, advVars, otherVars>>

\* The last input reader of an earlier worker returns from its read: its
\* send fails (receiver gone) or the read failed; either way the thread ends.
StaleExit(d) ==
    /\ proc = "run" /\ stale[d]
    /\ stale' = [stale EXCEPT ![d] = FALSE]
    /\ UNCHANGED <<orchVars, healthy, fpc, rpc, evq, sigbuf, sigSent, state,
                   staged, triggered, advVars, otherVars>>

----------------------------------------------------------------------------
(* Frame driver thread: main.rs 185-218 *)

\* The thread ends at `how` after tx.send(()).unwrap(); its FadeLeds and its
\* event receiver are dropped.
EndWithSignal(d, how) ==
    /\ fpc' = [fpc EXCEPT ![d] = how]
    /\ sigbuf' = [sigbuf EXCEPT ![d] = sigbuf[d] + 1]
    /\ sigSent' = [sigSent EXCEPT ![d] = sigSent[d] + 1]
    /\ state' = [state EXCEPT ![d] = <<>>]
    /\ staged' = [staged EXCEPT ![d] = <<>>]
    /\ triggered' = [triggered EXCEPT ![d] = {}]
    /\ evq' = [evq EXCEPT ![d] = <<>>]

\* Lines 186-197: init and turn_off_leds succeed, FadeLeds::new
FrameInitOk(d) ==
    /\ proc = "run" /\ fpc[d] = "init"
    /\ fpc' = [fpc EXCEPT ![d] = "run"]
    /\ state' = [state EXCEPT ![d] = NewFadeLeds(d)]
    /\ UNCHANGED <<orchVars, healthy, rpc, stale, evq, sigbuf, sigSent,
                   staged, triggered, advVars, otherVars>>

\* Lines 186-195
FrameInitFail(d) ==
    /\ proc = "run" /\ fpc[d] = "init"
    /\ EndWithSignal(d, "initfail")
    /\ UNCHANGED <<orchVars, healthy, rpc, stale, advVars, otherVars>>

\* A drain that waits for an event (recv in place of try_recv)
DrainedBlocking(d) == rpc[d] = "run" /\ evq[d] # <<>>

\* The drain of lines 202-210 ends with Empty only while the sender lives.
Drained(d) == rpc[d] = "run"

\* Spec follows a fade MaxFade ticks deep.
FadeDepthOk(st) ==
    \A i \in 1..Len(st) : st[i] = Off \/ st[i].b >= MAX - MaxFade

\* One iteration of the run loop in which update returns Ok.
TickOk(d) ==
    /\ proc = "run" /\ fpc[d] = "run" /\ Drained(d)
    /\ \E r \in {UpdateResult(state[d], evq[d], KeyMapOf(d), NumLeds(d))} :
           /\ r.kind = "ok"
           /\ FadeDepthOk(r.state)
           /\ state' = [state EXCEPT ![d] = r.state]
           /\ staged' = [staged EXCEPT ![d] = r.colors]
           /\ triggered' = [triggered EXCEPT ![d] = r.hit]
    /\ evq' = [evq EXCEPT ![d] = <<>>]
    /\ UNCHANGED <<orchVars, healthy, fpc, rpc, stale, sigbuf, sigSent, advVars, otherVars>>

\* fade.rs 86: cmd.set_led(..)? returns Err while staging.
TickStageFail(d) ==
    /\ proc = "run" /\ fpc[d] = "run" /\ Drained(d)
    /\ NumLeds(d) > 0
    /\ UpdateResult(state[d], evq[d], KeyMapOf(d), NumLeds(d)).kind = "ok"
    /\ EndWithSignal(d, "stagefail")
    /\ UNCHANGED <<orchVars, healthy, rpc, stale, advVars, otherVars>>

\* fade.rs 89: cmd.execute() returns Err after everything was staged.
TickExecFail(d) ==
    /\ proc = "run" /\ fpc[d] = "run" /\ Drained(d)
    /\ UpdateResult(state[d], evq[d], KeyMapOf(d), NumLeds(d)).kind = "ok"
    /\ EndWithSignal(d, "execfail")
    /\ UNCHANGED <<orchVars, healthy, rpc, stale, advVars, otherVars>>

\* main.rs 208: the drain finds the channel disconnected: break 'outer.
TickDisconnected(d) ==
    /\ proc = "run" /\ fpc[d] = "run" /\ ~Drained(d)
    /\ EndWithSignal(d, "disconnected")
    /\ UNCHANGED <<orchVars, healthy, rpc, stale, advVars, otherVars>>

\* update panics: the thread unwinds, tx is dropped without a send.
TickAbort(d) ==
    /\ proc = "run" /\ fpc[d] = "run" /\ Drained(d)
    /\ \E r \in {UpdateResult(state[d], evq[d], KeyMapOf(d), NumLeds(d))} :
           /\ r.kind # "ok"
           /\ fpc' = [fpc EXCEPT ![d] = r.kind]
    /\ state' = [state EXCEPT ![d] = <<>>]
    /\ staged' = [staged EXCEPT ![d] = <<>>]
    /\ triggered' = [triggered EXCEPT ![d] = {}]
    /\ evq' = [evq EXCEPT ![d] = <<>>]
    /\ UNCHANGED <<orchVars, healthy, rpc, stale, sigbuf, sigSent, advVars, otherVars>>

----------------------------------------------------------------------------
(* Spec: the whole process *)

OrchNext ==
    \/ Evict
    \/ \E S \in SUBSET Dev : EnumOk(S)
    \/ EnumFail
    \/ \E d \in Dev : SetupSyncFail(d)
    \/ \E d \in Dev : SetupSkip(d)
    \/ \E d \in Dev : SetupOpenFail(d)
    \/ \E d \in Dev : SetupSpawn(d)

FrameNext(d) ==
    \/ FrameInitOk(d)
    \/ FrameInitFail(d)
    \/ TickOk(d)
    \/ TickStageFail(d)
    \/ TickExecFail(d)
    \/ TickDisconnected(d)
    \/ TickAbort(d)

ReaderNext(d) ==
    \/ \E r \in Reports : ReadOk(d, r)
    \/ ReadFail(d)
    \/ StaleExit(d)

Next ==
    \/ OrchNext
    \/ \E d \in Dev : FrameNext(d)
    \/ \E d \in Dev : ReaderNext(d)

Spec == Init /\ [][Next]_vars

\* The async runtime keeps running the main task and the server answers;
\* the OS keeps running a frame driver thread, whose sleeps and round trips
\* end. A blocking read of an input reader may never return: no fairness.
LiveSpec ==
    /\ Spec
    /\ WF_vars(OrchNext)
    /\ \A d \in Dev : WF_vars(FrameNext(d))

----------------------------------------------------------------------------
(* FadeSpec: FadeLeds::update on the FadeLeds of one running worker *)

\* The state of Spec right after the worker of d has been started and its
\* frame driver has built its FadeLeds.
WorkerStarted(d) ==
    /\ proc = "run"
    /\ opc = "poll"
    /\ pending = {}
    /\ registry = [e \in Dev |-> e = d]
    /\ healthy = [e \in Dev |-> TRUE]
    /\ fpc = [e \in Dev |-> IF e = d THEN "run" ELSE "none"]
    /\ rpc = [e \in Dev |-> IF e = d THEN "run" ELSE "none"]
    /\ stale = [e \in Dev |-> FALSE]
    /\ evq = [e \in Dev |-> <<>>]
    /\ sigbuf = [e \in Dev |-> 0]
    /\ sigSent = [e \in Dev |-> 0]
    /\ state = [e \in Dev |-> IF e = d THEN NewFadeLeds(d) ELSE <<>>]
    /\ staged = [e \in Dev |-> <<>>]
    /\ triggered = [e \in Dev |-> {}]
    /\ fs = Off
    /\ n = 0
    /\ SupDone /\ CalNone /\ MapNone /\ NoDrain

FadeInit == \E d \in Dev : WorkerStarted(d)

\* fade.rs 56-92 with `events` as given; a panic ends the thread
FadeUpdate(d, events) ==
    /\ proc = "run" /\ fpc[d] = "run"
    /\ \E r \in {UpdateResult(state[d], events, KeyMapOf(d), NumLeds(d))} :
           /\ fpc' = IF r.kind = "ok" THEN fpc ELSE [fpc EXCEPT ![d] = r.kind]
           /\ state' = [state EXCEPT ![d] = r.state]
           /\ staged' = [staged EXCEPT ![d] = r.colors]
           /\ triggered' = [triggered EXCEPT ![d] = r.hit]
    /\ UNCHANGED <<orchVars, healthy, rpc, stale, evq, sigbuf, sigSent, advVars, otherVars>>

FadeNext == \E d \in Dev : \E events \in EventSeqs : FadeUpdate(d, events)

FadeSpec == FadeInit /\ [][FadeNext]_vars

----------------------------------------------------------------------------
(* AdvSpec: FadeState::update applied repeatedly to On(MAX), no trigger *)

AdvInit ==
    /\ proc = "run"
    /\ opc = "poll"
    /\ pending = {}
    /\ registry = [d \in Dev |-> FALSE]
    /\ healthy = [d \in Dev |-> TRUE]
    /\ fpc = [d \in Dev |-> "none"]
    /\ rpc = [d \in Dev |-> "none"]
    /\ stale = [d \in Dev |-> FALSE]
    /\ evq = [d \in Dev |-> <<>>]
    /\ sigbuf = [d \in Dev |-> 0]
    /\ sigSent = [d \in Dev |-> 0]
    /\ state = [d \in Dev |-> <<>>]
    /\ staged = [d \in Dev |-> <<>>]
    /\ triggered = [d \in Dev |-> {}]
    /\ fs = On(MAX)
    /\ n = 0
    /\ SupDone /\ CalNone /\ MapNone /\ NoDrain

Advance ==
    /\ n < MaxAdvances
    /\ fs' = FadeStateUpdate(fs)
    /\ n' = n + 1
    /\ UNCHANGED <<orchVars, healthy, workerVars, otherVars>>

AdvSpec == AdvInit /\ [][Advance]_vars

----------------------------------------------------------------------------
(* PressSpec: the worker of d1; the first tick drains a down event for the  *)
(* key of one LED, later ticks drain no down event for that LED (the other  *)
(* LED is triggered freely).                                                *)

PressLed == GetLed(KeyMapOf("d1"), KeyBytes(ReportDown200))

\* The event triggers PressLed in FadeLeds::update (fade.rs 64-67)
Presses(e) == IsDown(e) /\ GetLed(KeyMapOf("d1"), KeyBytes(e)) = PressLed

PressInit == WorkerStarted("d1")

\* One iteration of the run loop of d1 with `events` drained
PressTick(events) ==
    /\ n < MaxAdvances
    /\ IF n = 0
       THEN \E k \in 1..Len(events) : Presses(events[k])
       ELSE \A k \in 1..Len(events) : ~Presses(events[k])
    /\ \E r \in {UpdateResult(state["d1"], events, KeyMapOf("d1"), NumLeds("d1"))} :
           /\ r.kind = "ok"
           /\ state' = [state EXCEPT !["d1"] = r.state]
           /\ staged' = [staged EXCEPT !["d1"] = r.colors]
           /\ triggered' = [triggered EXCEPT !["d1"] = r.hit]
    /\ n' = n + 1
    /\ UNCHANGED <<orchVars, healthy, fpc, rpc, stale, evq, sigbuf, sigSent, fs,
                   otherVars>>

PressNext == \E events \in EventSeqs : PressTick(events)

PressSpec == PressInit /\ [][PressNext]_vars

----------------------------------------------------------------------------
(* DrainSpec: one iteration of the run loop in two steps, the drain of the  *)
(* event channel into `events` and FadeLeds::update on it, from a worker    *)
(* whose LEDs are at any combination of FadeLevels.                         *)

\* Fade states a LED can be in at the start of an iteration
FadeLevels == {Off} \cup {On(b) : b \in {0, 1, 128, MAX - 2, MAX - 1}}

\* What the drain loop can collect in one iteration
DrainSlices == UNION {[1..k -> FadeReports] : k \in 0..MaxDrain}

DrainInit ==
    \E d \in Dev : \E st \in [1..NumLeds(d) -> FadeLevels] :
        /\ proc = "run"
        /\ opc = "poll"
        /\ pending = {}
        /\ registry = [e \in Dev |-> e = d]
        /\ healthy = [e \in Dev |-> TRUE]
        /\ fpc = [e \in Dev |-> IF e = d THEN "run" ELSE "none"]
        /\ rpc = [e \in Dev |-> IF e = d THEN "run" ELSE "none"]
        /\ stale = [e \in Dev |-> FALSE]
        /\ evq = [e \in Dev |-> <<>>]
        /\ sigbuf = [e \in Dev |-> 0]
        /\ sigSent = [e \in Dev |-> 0]
        /\ state = [e \in Dev |-> IF e = d THEN st ELSE <<>>]
        /\ staged = [e \in Dev |->
                       IF e = d THEN [i \in 1..NumLeds(d) |-> NewColor(GetBrightness(st[i]))]
                       ELSE <<>>]
        /\ triggered = [e \in Dev |->
                          IF e = d THEN {i \in 1..NumLeds(d) : st[i] = On(MAX - 1)} ELSE {}]
        /\ fs = Off
        /\ n = 0
        /\ SupDone /\ CalNone /\ MapNone /\ NoDrain

\* main.rs 200-210: the drain loop ends with Empty, `events` holds the slice
Drain(d, slice) ==
    /\ proc = "run" /\ fpc[d] = "run" /\ n = 0
    /\ fpc' = [fpc EXCEPT ![d] = "drained"]
    /\ drained' = [drained EXCEPT ![d] = slice]
    /\ UNCHANGED <<orchVars, healthy, rpc, stale, evq, sigbuf, sigSent, state,
                   staged, triggered, advVars, supVars, calVars, mapVars>>

\* main.rs 212: func.update(&config, &events, &keymap, &controller); a panic
\* ends the thread and drops `events`
DrainUpdate(d) ==
    /\ proc = "run" /\ fpc[d] = "drained"
    /\ \E r \in {UpdateResult(state[d], drained[d], KeyMapOf(d), NumLeds(d))} :
           /\ fpc' = [fpc EXCEPT ![d] = IF r.kind = "ok" THEN "run" ELSE r.kind]
           /\ state' = [state EXCEPT ![d] = r.state]
           /\ staged' = [staged EXCEPT ![d] = r.colors]
           /\ triggered' = [triggered EXCEPT ![d] = r.hit]
           /\ drained' = IF r.kind = "ok" THEN drained
                         ELSE [drained EXCEPT ![d] = <<>>]
    /\ n' = n + 1
    /\ UNCHANGED <<orchVars, healthy, rpc, stale, evq, sigbuf, sigSent, fs,
                   supVars, calVars, mapVars>>

DrainNext ==
    \E d \in Dev :
        \/ \E slice \in DrainSlices : Drain(d, slice)
        \/ DrainUpdate(d)

DrainSpec == DrainInit /\ [][DrainNext]_vars

----------------------------------------------------------------------------
(* ConnSpec: wait_for_server (main.rs 86-97), before anything else runs *)

\* The process with no orchestrator activity, no worker and no thread
NoWorkers ==
    /\ proc = "run"
    /\ opc = "poll"
    /\ pending = {}
    /\ registry = [d \in Dev |-> FALSE]
    /\ healthy = [d \in Dev |-> TRUE]
    /\ fpc = [d \in Dev |-> "none"]
    /\ rpc = [d \in Dev |-> "none"]
    /\ stale = [d \in Dev |-> FALSE]
    /\ evq = [d \in Dev |-> <<>>]
    /\ sigbuf = [d \in Dev |-> 0]
    /\ sigSent = [d \in Dev |-> 0]
    /\ state = [d \in Dev |-> <<>>]
    /\ staged = [d \in Dev |-> <<>>]
    /\ triggered = [d \in Dev |-> {}]
    /\ fs = Off
    /\ n = 0

\* let ms = (250 * i).min(10000). i is a u64 counting attempts; 250 * i
\* stays far below 2^64 for any number of attempts a process can make.
BackoffFromOne(i) == IF 250 * (i + 1) < 10000 THEN 250 * (i + 1) ELSE 10000

Backoff(i) == IF 250 * i < 10000 THEN 250 * i ELSE 10000

ConnInit ==
    /\ NoWorkers
    /\ wpc = "connect" /\ attempt = 0 /\ waited = 0
    /\ serverUp \in BOOLEAN
    /\ CalNone /\ MapNone /\ NoDrain

\* Line 88-89: connect_to(..) is Ok: return client
ConnectOk ==
    /\ wpc = "connect" /\ serverUp
    /\ wpc' = "done"
    /\ UNCHANGED <<orchVars, healthy, workerVars, advVars, attempt, waited,
                   serverUp, calVars, mapVars, drained>>

\* Lines 90-93: connect_to(..) is Err: compute ms, start the timer
ConnectFail ==
    /\ wpc = "connect" /\ ~serverUp
    /\ attempt < MaxAttempts
    /\ waited' = Backoff(attempt)
    /\ wpc' = "sleep"
    /\ UNCHANGED <<orchVars, healthy, workerVars, advVars, attempt, serverUp,
                   calVars, mapVars, drained>>

\* Line 93 and 87: the timer fires, the for loop takes the next i
SleepDone ==
    /\ wpc = "sleep"
    /\ attempt' = attempt + 1
    /\ wpc' = "connect"
    /\ UNCHANGED <<orchVars, healthy, workerVars, advVars, waited, serverUp,
                   calVars, mapVars, drained>>

\* The server starts or stops accepting connections
ServerFlip ==
    /\ wpc # "done"
    /\ serverUp' = ~serverUp
    /\ UNCHANGED <<orchVars, healthy, workerVars, advVars, wpc, attempt, waited,
                   calVars, mapVars, drained>>

SupervisorNext == ConnectOk \/ ConnectFail \/ SleepDone

ConnNext == SupervisorNext \/ ServerFlip

\* The runtime keeps polling the future of wait_for_server: connection
\* attempts end and timers fire. Nothing is assumed of the server.
ConnSpec == ConnInit /\ [][ConnNext]_vars /\ WF_vars(SupervisorNext)

----------------------------------------------------------------------------
(* IdleSpec: a running worker whose input reader thread stays blocked in    *)
(* its read: no report arrives, the event channel stays empty and connected *)

\* One iteration of the run loop in which update returns Ok, at any fade
\* depth
Tick(d) ==
    /\ proc = "run" /\ fpc[d] = "run" /\ Drained(d)
    /\ \E r \in {UpdateResult(state[d], evq[d], KeyMapOf(d), NumLeds(d))} :
           /\ r.kind = "ok"
           /\ state' = [state EXCEPT ![d] = r.state]
           /\ staged' = [staged EXCEPT ![d] = r.colors]
           /\ triggered' = [triggered EXCEPT ![d] = r.hit]
    /\ evq' = [evq EXCEPT ![d] = <<>>]
    /\ UNCHANGED <<orchVars, healthy, fpc, rpc, stale, sigbuf, sigSent, advVars,
                   otherVars>>

IdleNext ==
    \E d \in Dev :
        \/ Tick(d)
        \/ TickStageFail(d)
        \/ TickExecFail(d)

\* The OS keeps running the frame driver thread: its sleep ends, and the
\* round trip of cmd.execute() ends (with Ok or with Err).
IdleSpec ==
    /\ DrainInit
    /\ [][IdleNext]_vars
    /\ \A d \in Dev : WF_vars(Tick(d))

----------------------------------------------------------------------------
(* CalSpec: setup_device (main.rs 53-84), the input device opened *)

\* device.num_leds() of the controller being set up
CalNumLeds == 3

\* Reports of fewer than 5 bytes
ReportEmpty  == <<>>
ReportThree  == <<0, 0, 100>>
ReportShort9 == <<0, 0, 9, 0>>

\* Reports with other key codes (300 = 44 + 256 * 1)
ReportDown8   == <<0, 0, 8, 0, 1>>
ReportDown300 == <<0, 0, 44, 1, 1>>

\* What read_blocking() can return during the setup
CalReports ==
    {ReportEmpty, ReportThree, ReportShort9, ReportDown100, ReportUp100,
     ReportDown200, ReportDown7, ReportDown8, ReportDown300}

\* main.rs 65: !seen.contains(&key)
IsNovelAlways(seenKeys, key) == TRUE

IsNovel(seenKeys, key) == key \notin seenKeys

CalInit ==
    /\ NoWorkers /\ SupDone
    /\ cpc = "light" /\ seen = {} /\ keys = <<>>
    /\ MapNone /\ NoDrain

\* The function is left by a panic or an Err: its locals are dropped
CalEnd(how) ==
    /\ cpc' = how
    /\ seen' = {}
    /\ keys' = <<>>
    /\ UNCHANGED <<orchVars, healthy, workerVars, advVars, supVars, mapVars,
                   drained>>

\* Lines 75-76: all LEDs off, the current LED (index Len(keys)) lit
CalLight ==
    /\ cpc = "light"
    /\ cpc' = "wait"
    /\ UNCHANGED <<orchVars, healthy, workerVars, advVars, supVars, seen, keys,
                   mapVars, drained>>

\* Lines 75-76: turn_off_leds().await? or set_led(..).await? is Err
CalLightFail == cpc = "light" /\ CalEnd("err")

\* Line 62: read_blocking().unwrap() on an Err
CalReadFail == cpc = "wait" /\ CalEnd("readPanic")

\* Line 63: key_bytes() indexes bytes 2 and 3 of the report
CalKeyBytesPanic(r) == cpc = "wait" /\ Len(r) < 4 /\ CalEnd("indexPanic")

\* Lines 62-68 and 78-80: one report read; a code already seen is skipped
\* (the loop reads again), a new one is recorded for the current LED and
\* the for loop goes to the next LED or ends (line 83).
CalRead(r) ==
    /\ cpc = "wait" /\ Len(r) >= 4
    /\ IF IsNovel(seen, KeyBytes(r))
       THEN /\ seen' = seen \cup {KeyBytes(r)}
            /\ keys' = Append(keys, KeyBytes(r))
            /\ cpc' = IF Len(keys') = CalNumLeds THEN "done" ELSE "light"
       ELSE UNCHANGED <<cpc, seen, keys>>
    /\ UNCHANGED <<orchVars, healthy, workerVars, advVars, supVars, mapVars,
                   drained>>

CalNext ==
    \/ CalLight
    \/ CalLightFail
    \/ CalReadFail
    \/ \E r \in CalReports : CalKeyBytesPanic(r)
    \/ \E r \in CalReports : CalRead(r)

CalSpec == CalInit /\ [][CalNext]_vars

----------------------------------------------------------------------------
(* key_mappings.rs: the keymap file format. A text is a sequence of         *)
(* one-character strings.                                                   *)

DigitChars == <<"0", "1", "2", "3", "4", "5", "6", "7", "8", "9">>

IsDigit(c) == \E v \in 1..10 : DigitChars[v] = c

DigitValue(c) == (CHOOSE v \in 1..10 : DigitChars[v] = c) - 1

\* format!("{}", key) for a u16
RECURSIVE Decimal(_)
Decimal(k) ==
    IF k < 10 THEN <<DigitChars[k + 1]>>
    ELSE Decimal(k \div 10) \o <<DigitChars[(k % 10) + 1]>>

\* KeyMapping::as_file_string: the formatted codes joined by "\n"
RECURSIVE AsFileString(_)
AsFileString(km) ==
    IF km = <<>> THEN <<>>
    ELSE IF Len(km) = 1 THEN Decimal(km[1])
    ELSE Decimal(Head(km)) \o <<"\n">> \o AsFileString(Tail(km))

\* str::split("\n"): the segments between the newlines; one segment (the
\* whole text, possibly empty) when there is no newline
RECURSIVE SplitLines(_)
SplitLines(text) ==
    IF \A i \in 1..Len(text) : text[i] # "\n" THEN <<text>>
    ELSE LET i == CHOOSE j \in 1..Len(text) :
                      text[j] = "\n" /\ \A k \in 1..(j - 1) : text[k] # "\n"
         IN  <<SubSeq(text, 1, i - 1)>> \o SplitLines(SubSeq(text, i + 1, Len(text)))

\* The number written by a sequence of digits, as far as it matters for a
\* u16: a value above 65535 stays above it
RECURSIVE DigitsValue(_)
DigitsValue(ds) ==
    IF ds = <<>> THEN 0
    ELSE LET v == DigitsValue(SubSeq(ds, 1, Len(ds) - 1))
         IN  IF v > 65535 THEN v ELSE 10 * v + DigitValue(ds[Len(ds)])

\* A parse that only accepts one byte
ParseU8(line) ==
    LET ds == IF line # <<>> /\ Head(line) = "+" THEN Tail(line) ELSE line
    IN  IF ds = <<>> \/ \E i \in 1..Len(ds) : ~IsDigit(ds[i])
        THEN [ok |-> FALSE, v |-> 0]
        ELSE IF DigitsValue(ds) > 255 THEN [ok |-> FALSE, v |-> 0]
        ELSE [ok |-> TRUE, v |-> DigitsValue(ds)]

\* str::parse::<u16>: an optional "+", then at least one digit, nothing
\* else, value at most 65535
ParseU16(line) ==
    LET ds == IF line # <<>> /\ Head(line) = "+" THEN Tail(line) ELSE line
    IN  IF ds = <<>> \/ \E i \in 1..Len(ds) : ~IsDigit(ds[i])
        THEN [ok |-> FALSE, v |-> 0]
        ELSE IF DigitsValue(ds) > 65535 THEN [ok |-> FALSE, v |-> 0]
        ELSE [ok |-> TRUE, v |-> DigitsValue(ds)]

\* KeyMapping::parse_from_file: every line must parse
ParseFromFile(text) ==
    LET lines == SplitLines(text)
    IN  IF \A i \in 1..Len(lines) : ParseU16(lines[i]).ok
        THEN [some |-> TRUE, km |-> [i \in 1..Len(lines) |-> ParseU16(lines[i]).v]]
        ELSE [some |-> FALSE, km |-> <<>>]

(* MapSpec: a KeyMapping is written to its file (main.rs 145), the file may *)
(* get a newline appended by an editor, and is parsed (main.rs 159-160).    *)

\* Key codes the mappings are made of
KeyCodes == {0, 7, 100, 300, 65535}

Mappings == UNION {[1..k -> KeyCodes] : k \in 0..MaxMapLen}

\* setup_device has returned keys
MapInit ==
    /\ NoWorkers /\ SupDone
    /\ cpc = "done" /\ seen = {} /\ keys \in Mappings
    /\ MapNone /\ NoDrain

\* main.rs 145: std::fs::write(out_file, keymap.as_file_string())
WriteFile ==
    /\ cpc = "done"
    /\ file' = AsFileString(keys)
    /\ cpc' = "written"
    /\ UNCHANGED <<orchVars, healthy, workerVars, advVars, supVars, seen, keys,
                   parsed, drained>>

\* The file is saved again by a tool that ends the last line with "\n"
AppendNewline ==
    /\ cpc = "written"
    /\ file' = file \o <<"\n">>
    /\ cpc' = "edited"
    /\ UNCHANGED <<orchVars, healthy, workerVars, advVars, supVars, seen, keys,
                   parsed, drained>>

\* main.rs 159-160: read_to_string and KeyMapping::parse_from_file
ParseFile ==
    /\ cpc \in {"written", "edited"}
    /\ parsed' = ParseFromFile(file)
    /\ cpc' = IF cpc = "written" THEN "parsed" ELSE "parsedNl"
    /\ UNCHANGED <<orchVars, healthy, workerVars, advVars, supVars, seen, keys,
                   file, drained>>

MapNext == WriteFile \/ AppendNewline \/ ParseFile

MapSpec == MapInit /\ [][MapNext]_vars

----------------------------------------------------------------------------
(* Properties *)

\* How a frame driver thread can have ended
Ended == {"initfail", "stagefail", "execfail", "disconnected", "index", "divzero"}

ReaderThreads(d) == (IF rpc[d] = "run" THEN 1 ELSE 0) + (IF stale[d] THEN 1 ELSE 0)

FrameThreads(d) == IF FrameAlive(d) THEN 1 ELSE 0

\* C1: however a frame driver ended (init failure, staging error, execute
\* failure, event channel disconnected, or a panic of the thread), it has
\* sent its completion signal exactly once; no frame driver sends it twice.
C1_SignalExactlyOnce ==
    \A d \in Dev :
        /\ sigSent[d] <= 1
        /\ fpc[d] \in Ended => sigSent[d] = 1

\* C2: for every controller at most one frame driver thread and at most one
\* input reader thread exist at any time.
C2_AtMostOneWorker ==
    \A d \in Dev : FrameThreads(d) <= 1 /\ ReaderThreads(d) <= 1

\* C3: a failed command execution ends the worker with its signal sent; the
\* eviction step of a poll (which precedes the controller query) removes
\* exactly the registry entries whose channel holds a value or is closed,
\* and keeps every entry whose channel is merely empty.
C3_EvictOnNextPoll ==
    [][ /\ \A d \in Dev :
              (fpc[d] = "run" /\ fpc'[d] = "execfail")
                  => (sigbuf'[d] = 1 /\ sigSent'[d] = 1)
        /\ (proc' = "run" /\ opc = "poll" /\ opc' = "enum")
              => \A d \in Dev :
                    registry'[d] <=>
                        (registry[d] /\ sigbuf[d] = 0 /\ FrameAlive(d))
      ]_vars

\* Reached: a worker died of an execute failure, its entry was evicted and
\* the orchestrator is about to query the controller list.
C3_Witness ==
    \E d \in Dev :
        proc = "run" /\ opc = "enum" /\ fpc[d] = "execfail" /\ ~registry[d]

\* A step in which d's input read or d's command execution fails
IOErrorStep(d) ==
    \/ rpc[d] = "run" /\ rpc'[d] = "readerr"
    \/ fpc[d] = "run" /\ fpc'[d] = "execfail"

\* C4: a failed read or a failed command execution of controller d leaves
\* the process running, the orchestrator where it was, the registry as it
\* was, and every other controller's worker (threads, channels, fade
\* states, staged colours) untouched.
C4_IOErrorIsolated ==
    [][ \A d \in Dev :
            IOErrorStep(d) =>
                /\ proc' = "run"
                /\ opc' = opc /\ pending' = pending /\ registry' = registry
                /\ \A e \in Dev \ {d} :
                      /\ fpc'[e] = fpc[e] /\ rpc'[e] = rpc[e]
                      /\ evq'[e] = evq[e] /\ sigbuf'[e] = sigbuf[e]
                      /\ state'[e] = state[e] /\ staged'[e] = staged[e]
      ]_vars

\* Reached: d's read failed and ended d's worker while another controller's
\* worker runs, registered, with a LED mid-fade.
C4_Witness ==
    \E d \in Dev : \E e \in Dev \ {d} :
        /\ proc = "run"
        /\ rpc[d] = "readerr" /\ fpc[d] = "disconnected"
        /\ registry[e] /\ fpc[e] = "run" /\ rpc[e] = "run"
        /\ \E i \in 1..NumLeds(e) : state[e][i].tag = "On"

\* C5: a failed controller enumeration or data refresh never ends the
\* process.
C5_ServerErrorNeverFatal == proc \notin {"enumPanic", "syncPanic"}

\* C6: a setup attempt that fails at the device-open stage (keymap missing or
\* unparsable, input device not openable) spawns nothing, inserts nothing,
\* and leaves the process running with the poll loop going on.
C6_OpenFailureSkips ==
    [][ \A d \in Dev :
            (SetupSkip(d) \/ SetupOpenFail(d)) =>
                /\ proc' = "run"
                /\ registry' = registry
                /\ fpc' = fpc /\ rpc' = rpc
                /\ d \notin pending'
      ]_vars

\* C7: if d is always enumerated with a parsable keymap and an openable
\* device, and the server answers every query, then whenever d's worker has
\* ended a live worker of d is eventually registered again.
C7_RePickup ==
    \A d \in Dev :
        (healthy[d] /\ [](proc \notin {"enumPanic", "syncPanic"}))
            => [](fpc[d] \in Ended => <>(registry[d] /\ FrameAlive(d)))

\* C8: after an update that triggered LED i (a drained down event mapped to
\* it), LED i is On(MAX - 1), i.e. the trigger came before this tick's
\* advance, and the colour staged for it is the configured base colour.
C8_TriggerShowsBaseColor ==
    \A d \in Dev :
        fpc[d] = "run" =>
            \A i \in triggered[d] :
                state[d][i] = On(MAX - 1) /\ staged[d][i] = ConfigColor

\* Reached: LED 2 of d1 was triggered in this tick while LED 1 is mid-fade.
C8_Witness ==
    /\ fpc["d1"] = "run"
    /\ triggered["d1"] = {2}
    /\ state["d1"][1] = On(100)
    /\ staged["d1"][2] = ConfigColor

\* C9: no update divides by zero: the brightness a colour is computed from
\* is never 255, so no frame driver dies of a division by zero and no fade
\* state rests at On(255).
C9_DivisorNeverZero ==
    \A d \in Dev :
        /\ fpc[d] # "divzero"
        /\ \A i \in 1..Len(state[d]) : state[d][i] # On(MAX)

\* Reached: one LED just triggered (divisor 1), the other one tick before
\* brightness 0 (divisor 254).
C9_Witness ==
    /\ fpc["d1"] = "run"
    /\ state["d1"][1] = On(MAX - 1)
    /\ state["d1"][2] = On(1)
    /\ staged["d1"][2] = <<1, 0, 1>>

\* C10 as claimed: from On(MAX), step 1, no re-trigger, the state is Off for
\* the first time after exactly 255 advances.
C10_OffAfter255 ==
    /\ n < MAX => fs # Off
    /\ n = MAX => fs = Off

\* C10 amended: the state is On(MAX - k) after k <= 255 advances, so On(0)
\* after 255, and Off for the first time after exactly 256 advances.
C10_OffAfter256 ==
    /\ n <= MAX => fs = On(MAX - n)
    /\ n >= MAX + 1 => fs = Off

C10_Witness == n = MAX + 1 /\ fs = Off

\* C11: after the tick that triggered a LED, and while no further down event
\* for that LED is drained, the LED's brightness after its k-th advance is
\* 255 - k for every k in 1..254; in every tick a LED that was not triggered
\* loses exactly 1 (or stays 0), and a brightness only rises by a trigger.
C11_FadeByOne ==
    [][ /\ n' \in 1..(MAX - 1) => state'["d1"][PressLed] = On(MAX - n')
        /\ \A i \in 1..NumLeds("d1") :
              LET b  == GetBrightness(state["d1"][i])
                  bb == GetBrightness(state'["d1"][i])
              IN  /\ i \notin triggered'["d1"] =>
                        bb = (IF b > 0 THEN b - 1 ELSE 0)
                  /\ bb > b => i \in triggered'["d1"]
      ]_vars

\* Reached: five advances after the press the LED is at brightness 250,
\* while the other LED has been triggered in between.
C11_Witness ==
    /\ n = 5
    /\ state["d1"][PressLed] = On(250)
    /\ state["d1"][1] = On(252)

\* Sequence helpers for the properties of a drained slice
RemoveAt(q, p) == [k \in 1..(Len(q) - 1) |-> IF k < p THEN q[k] ELSE q[k + 1]]

SwapAt(q, p) ==
    [k \in 1..Len(q) |-> IF k = p THEN q[p + 1] ELSE IF k = p + 1 THEN q[p] ELSE q[k]]

\* LED i's key goes down somewhere in the slice q drained for d
DownFor(d, q, i) ==
    \E k \in 1..Len(q) : IsDown(q[k]) /\ GetLed(KeyMapOf(d), KeyBytes(q[k])) = i

\* An update step of d that returned (no panic)
UpdateStep(d) == fpc[d] = "drained" /\ fpc'[d] = "run"

\* C12 as claimed: after the tick every LED whose key went down in the
\* drained slice is at On(MAX).
C12_TriggeredAtMax ==
    [][ \A d \in Dev : UpdateStep(d) =>
            \A i \in 1..NumLeds(d) :
                DownFor(d, drained[d], i) => state'[d][i] = On(MAX)
      ]_vars

\* C12 amended: after the tick every LED whose key went down in the drained
\* slice is at On(MAX - 1) (set to On(MAX), then advanced once in the same
\* tick) whatever its state before; the result does not depend on the order
\* of the events (swapping two neighbours) nor on repetitions (dropping an
\* event that occurs earlier in the slice).
C12_TriggeredAtMaxMinusOne ==
    [][ \A d \in Dev : UpdateStep(d) =>
            /\ \A i \in 1..NumLeds(d) :
                  DownFor(d, drained[d], i) => state'[d][i] = On(MAX - 1)
            /\ \A p \in 1..(Len(drained[d]) - 1) :
                  UpdateResult(state[d], SwapAt(drained[d], p),
                               KeyMapOf(d), NumLeds(d)).state = state'[d]
            /\ \A p \in 1..Len(drained[d]) :
                  (\E q \in 1..(p - 1) : drained[d][q] = drained[d][p])
                      => UpdateResult(state[d], RemoveAt(drained[d], p),
                                      KeyMapOf(d), NumLeds(d)).state = state'[d]
      ]_vars

\* Reached: down(100), down(200), down(100) were drained and applied in
\* one tick of d1.
C12_Witness ==
    /\ fpc["d1"] = "run" /\ n = 1
    /\ drained["d1"] = <<ReportDown100, ReportDown200, ReportDown100>>
    /\ triggered["d1"] = {1, 2}
    /\ state["d1"] = <<On(MAX - 1), On(MAX - 1)>>

\* The event is not a down event, or its key code is no entry of d's mapping
Ineffective(d, e) ==
    \/ Len(e) < 5
    \/ e[5] = 0
    \/ \A j \in 1..Len(KeyMapOf(d)) : KeyMapOf(d)[j] # e[3] + 256 * e[4]

\* C13: a drained event that is not a down event, or whose key code is not
\* in the mapping, changes nothing: the update ends as it would have ended,
\* with the same fade-state array, had the event not been in the slice.
C13_IneffectiveEventNoEffect ==
    [][ \A d \in Dev :
            (fpc[d] = "drained" /\ fpc'[d] # "drained") =>
                \A p \in 1..Len(drained[d]) :
                    Ineffective(d, drained[d][p]) =>
                        LET r == UpdateResult(state[d], RemoveAt(drained[d], p),
                                              KeyMapOf(d), NumLeds(d))
                        IN  /\ (r.kind = "ok") <=> (fpc'[d] = "run")
                            /\ r.state = state'[d]
      ]_vars

\* Reached: a down event of an unmapped key, an up event and a down event of
\* LED 2's key were drained in one tick of d1; only LED 2 was triggered.
C13_Witness ==
    /\ fpc["d1"] = "run" /\ n = 1
    /\ drained["d1"] = <<ReportDown7, ReportUp100, ReportDown200>>
    /\ triggered["d1"] = {2}
    /\ state["d1"][1] = On(127)

\* C14: the wait after the failed attempt number k (k = 0, 1, ...) is
\* 250 * k ms up to k = 40 and 10000 ms from there on, so 0 ms after the
\* first failure, never decreasing, never above 10000; a failed attempt is
\* always followed by another attempt; the client is returned by the first
\* attempt made while the server accepts; and if the server eventually
\* accepts for good, the client is eventually returned.
C14_BackoffAndReturn ==
    /\ [][ /\ (wpc = "connect" /\ wpc' = "sleep") =>
                 /\ waited' = (IF attempt <= 40 THEN 250 * attempt ELSE 10000)
                 /\ waited' >= waited /\ waited' <= 10000
           /\ (wpc = "connect" /\ wpc' = "connect") => serverUp' # serverUp
           /\ (wpc = "connect" /\ serverUp /\ serverUp') => wpc' = "done"
           /\ (wpc # "done" /\ wpc' = "done") =>
                 (wpc = "connect" /\ serverUp /\ attempt' = attempt)
         ]_vars
    /\ [](wpc = "sleep" => <>(wpc = "connect"))
    /\ (<>[]serverUp) => <>(wpc = "done")

\* Reached: the client is returned after 42 failed attempts, the last wait
\* having been the capped one.
C14_Witness == wpc = "done" /\ attempt = 42 /\ waited = 10000

\* C15: a report of fewer than 5 bytes is ignored by the setup flow: it
\* neither aborts the flow nor gets its bytes recorded as a key code.
C15_ShortReportIgnored ==
    /\ cpc # "indexPanic"
    /\ KeyBytes(ReportShort9) \notin seen

\* C16: keys only grows, by one code at a time, at the index of the LED
\* that is lit, and only by a code not recorded before; so the recorded
\* codes are pairwise distinct, they are exactly the codes seen, there is
\* never more than one per LED, and on completion there is one for each
\* of the controller's LEDs.
C16_OneNovelCodePerLed ==
    [][ /\ Len(keys') <= CalNumLeds
        /\ \A i, j \in 1..Len(keys') : i # j => keys'[i] # keys'[j]
        /\ seen' = {keys'[i] : i \in 1..Len(keys')}
        /\ cpc' = "done" <=> Len(keys') = CalNumLeds
        /\ (keys' # keys /\ keys' # <<>>) =>
              /\ cpc = "wait"
              /\ Len(keys') = Len(keys) + 1
              /\ \A i \in 1..Len(keys) : keys'[i] = keys[i]
              /\ keys'[Len(keys')] \notin seen
      ]_vars

\* Reached: the flow completed with three codes in the order pressed.
C16_Witness == cpc = "done" /\ keys = <<200, 300, 7>>

\* C17: a non-empty mapping written by as_file_string and parsed back by
\* parse_from_file is the same mapping: the parse succeeds, with the same
\* length and the same codes at the same indices.
C17_RoundTrip ==
    (cpc = "parsed" /\ keys # <<>>) =>
        /\ parsed.some
        /\ Len(parsed.km) = Len(keys)
        /\ \A i \in 1..Len(keys) : parsed.km[i] = keys[i]

\* Reached: a mapping with a one-digit, a three-digit and the largest code
\* went through its file and came back.
C17_Witness ==
    /\ cpc = "parsed"
    /\ keys = <<65535, 0, 100>>
    /\ file = <<"6", "5", "5", "3", "5", "\n", "0", "\n", "1", "0", "0">>
    /\ parsed = [some |-> TRUE, km |-> <<65535, 0, 100>>]

\* C18: a non-empty mapping whose file got one trailing newline still
\* parses, and to the same mapping.
C18_TrailingNewlineTolerated ==
    (cpc = "parsedNl" /\ keys # <<>>) =>
        (parsed.some /\ parsed.km = keys)

\* C19: with the input reader blocked and the event channel empty, every
\* step of a frame driver that goes on running is a completed tick: each
\* LED is advanced (brightness one less, or Off), a colour is staged for
\* every LED, black exactly for the LEDs at brightness 0; and unless a
\* command fails, every LED ends up Off and black for good.
C19_TicksWithoutInput ==
    /\ [][ \A d \in Dev :
              (fpc[d] = "run" /\ fpc'[d] = "run") =>
                  /\ rpc'[d] = "run" /\ evq[d] = <<>> /\ evq'[d] = <<>>
                  /\ Len(staged'[d]) = NumLeds(d)
                  /\ \A i \in 1..NumLeds(d) :
                        /\ GetBrightness(state'[d][i]) =
                              (IF GetBrightness(state[d][i]) > 0
                               THEN GetBrightness(state[d][i]) - 1 ELSE 0)
                        /\ state[d][i] \in {Off, On(0)} => state'[d][i] = Off
                        /\ (staged'[d][i] = Black) <=>
                              (GetBrightness(state'[d][i]) = 0)
          ]_vars
    /\ \A d \in Dev :
          [](fpc[d] = "run") =>
              <>[](/\ fpc[d] = "run"
                   /\ \A i \in 1..NumLeds(d) :
                         state[d][i] = Off /\ staged[d][i] = Black)

\* Reached: d1 has ticked while its reader is blocked; one LED has faded
\* from On(254) to Off and is staged black, the other is still fading.
C19_Witness ==
    /\ fpc["d1"] = "run" /\ rpc["d1"] = "run" /\ evq["d1"] = <<>>
    /\ state["d1"][1] = Off /\ staged["d1"][1] = Black
    /\ state["d1"][2] = On(3)

\* C20: no frame driver dies of an out-of-range access to its fade-state
\* array (the LED index looked up for a drained down event is always within
\* it), and the array has one entry for each LED the advance phase visits.
C20_IndexInRange ==
    \A d \in Dev :
        /\ fpc[d] # "index"
        /\ fpc[d] = "run" => Len(state[d]) = NumLeds(d)

====
